---- MODULE Spec2Model ----
(***************************************************************************)
(* Model of the gcp-scheduler-runner service: the API-key gate             *)
(* (src/auth.py), the /execute request handler (src/app.py), the           *)
(* sequential and thread-pool executors (src/http_executor.py) and the     *)
(* result and summary records (src/models.py).                             *)
(*                                                                         *)
(* One request is handled at a time.  The environment (API_KEY, TESTING,   *)
(* ENDPOINTS, ENDPOINTS_TO_EXECUTE, the request body, the SMTP outcome)    *)
(* is read with \E at the place where the code reads it.  Timestamps and   *)
(* response payloads are left out of the records: no decision depends on   *)
(* them.  The handlers read neither the X-API-Key header nor the locals of *)
(* the gate, so both are forgotten (cred, gate) by the first step of a     *)
(* handler: the state in which the handler has been called and has not yet *)
(* acted (pc = "handler") is the one that still shows them.  The field pos *)
(* of a result is the position of its endpoint in the input list; the code *)
(* does not store it, the model keeps it to tell two results for the same  *)
(* URL apart.                                                              *)
(***************************************************************************)
EXTENDS Integers, Sequences, FiniteSets, TLC

VARIABLES
    pc,          \* position of the request being handled
    req,         \* the request: route and method
    cred,        \* the X-API-Key header of the request, None when absent
    gate,        \* the locals of decorated_function: what it read and decided
    mode,        \* executor inputs: parallel flag, max_workers, send_email
    endpoints,   \* the endpoint list the handler executes
    idx,         \* loop index of execute_sequential
    results,     \* bucket of SUCCESS results
    warnings,    \* bucket of WARNING results
    errors,      \* bucket of ERROR results
    tasks,       \* parallel mode: state of each submitted future
    ready,       \* parallel mode: futures as_completed will yield, in order
    collecting,  \* parallel mode: as_completed has taken its snapshot
    raised,      \* exception travelling up from the executor, or None
    summary,     \* ExecutionSummary built by the POST path, or None
    response,    \* what the client receives
    trace,       \* side effects of this request: loads, calls, notifications
    statusCode,  \* input of the classification harness
    classified,  \* output of the classification harness
    bodyIn,      \* input of the body-selection harness
    bodyOut,     \* output of the body-selection harness
    environ,     \* loader harness: the process environment
    loaded,      \* loader harness: what load_endpoints_from_env gave
    firstRun     \* repeat harness: bucket counts of the first execute call

vars == <<pc, req, cred, gate, mode, endpoints, idx, results, warnings, errors,
          tasks, ready, collecting, raised, summary, response, trace,
          statusCode, classified, bodyIn, bodyOut, environ, loaded, firstRun>>

----
\* Bounds of the model.
MaxEndpoints == 2
MaxWorkersAsked == 2
MaxCode == 600
MaxText == 3

None == "None"

\* ExecutionStatus
SUCCESS == "success"
WARNING == "warning"
ERROR == "error"

\* The built-in key accepted while TESTING is on.
TestKey == "test-api-key-123"

\* Default pool size requested by the handler.
DefaultWorkers == 10

\* Marker of a dict key that is not present.
Absent == "<absent>"

\* Marker of a "method" value that is not a string (a number, null).
NonStr == "<non-str>"

----
\* The stubbed transport: each URL has one fixed outcome.
Urls == {"http://ok", "http://warn", "http://bad", "http://down"}

\* Status code the stub answers for a URL; 0 stands for "no answer".
StubStatus(url) ==
    CASE url = "http://ok"   -> 200
      [] url = "http://warn" -> 207
      [] url = "http://bad"  -> 500
      [] OTHER               -> 0

\* requests.request as stubbed: a response, or a RequestException
\* (ConnectionError for the unreachable host, MissingSchema for no URL).
Transport(url) ==
    IF url \in Urls /\ StubStatus(url) # 0
    THEN [raised |-> FALSE, status_code |-> StubStatus(url), exc |-> None, msg |-> None]
    ELSE IF url \in Urls
    THEN [raised |-> TRUE, status_code |-> 0, exc |-> "RequestException",
          msg |-> "Connection refused"]
    ELSE [raised |-> TRUE, status_code |-> 0, exc |-> "RequestException",
          msg |-> "Invalid URL: No scheme supplied"]

\* Raw endpoint descriptors a caller or the configuration can supply.
StrDescriptor(u) == [type |-> "str", url |-> u, method |-> Absent]
DictDescriptor(u, m) == [type |-> "dict", url |-> u, method |-> m]
NumberDescriptor == [type |-> "int", url |-> Absent, method |-> Absent]

Descriptors ==
    {StrDescriptor(u) : u \in Urls}
    \cup {NumberDescriptor,
          DictDescriptor("http://ok", "get"),
          DictDescriptor(Absent, Absent),
          DictDescriptor("http://warn", NonStr)}

\* str.upper on the method names in use.
Upper(m) ==
    CASE m = "get"  -> "GET"
      [] m = "post" -> "POST"
      [] OTHER      -> m

\* dict.get(key, default)
DictGet(value, default) == IF value = Absent THEN default ELSE value

\* from_config raising TypeError, not ValueError, for a descriptor that is
\* neither a string nor a mapping.
from_config_type_error(config) ==
    IF config.type = "str"
    THEN [ok |-> TRUE, exc |-> None, msg |-> None,
          url |-> config.url, method |-> "POST"]
    ELSE IF config.type = "dict"
    THEN IF DictGet(config.method, "POST") = NonStr
         THEN [ok |-> FALSE, exc |-> "AttributeError",
               msg |-> "object has no attribute 'upper'",
               url |-> None, method |-> None]
         ELSE [ok |-> TRUE, exc |-> None, msg |-> None,
               url |-> DictGet(config.url, None),
               method |-> Upper(DictGet(config.method, "POST"))]
    ELSE [ok |-> FALSE, exc |-> "TypeError",
          msg |-> "Invalid endpoint configuration type",
          url |-> None, method |-> None]

\* EndpointConfig.from_config: an EndpointConfig, or the exception raised.
from_config(config) ==
    IF config.type = "str"
    THEN [ok |-> TRUE, exc |-> None, msg |-> None,
          url |-> config.url, method |-> "POST"]
    ELSE IF config.type = "dict"
    THEN IF DictGet(config.method, "POST") = NonStr
         THEN [ok |-> FALSE, exc |-> "AttributeError",
               msg |-> "object has no attribute 'upper'",
               url |-> None, method |-> None]
         ELSE [ok |-> TRUE, exc |-> None, msg |-> None,
               url |-> DictGet(config.url, None),
               method |-> Upper(DictGet(config.method, "POST"))]
    ELSE [ok |-> FALSE, exc |-> "ValueError",
          msg |-> "Invalid endpoint configuration type",
          url |-> None, method |-> None]

\* _classify_status with the range test ahead of the test for 207.
_classify_status_range_first(status_code) ==
    IF 200 <= status_code /\ status_code < 300 THEN SUCCESS
    ELSE IF status_code = 207 THEN WARNING
    ELSE ERROR

\* ExecutionResult._classify_status
_classify_status(status_code) ==
    IF status_code = 207 THEN WARNING
    ELSE IF 200 <= status_code /\ status_code < 300 THEN SUCCESS
    ELSE ERROR

\* ExecutionResult.from_error
from_error(endpoint, error_message, pos) ==
    [endpoint |-> endpoint, method |-> "UNKNOWN", status_code |-> 0,
     error |-> error_message, status |-> ERROR, pos |-> pos]

\* from_response giving the error text to every result that is not a
\* SUCCESS, the WARNING ones included.
from_response_error_unless_success(endpoint, method, status_code, pos) ==
    LET status == _classify_status(status_code)
    IN  [endpoint |-> endpoint, method |-> method, status_code |-> status_code,
         error |-> IF status = SUCCESS THEN None
                   ELSE "HTTP " \o ToString(status_code),
         status |-> status, pos |-> pos]

\* ExecutionResult.from_response
from_response(endpoint, method, status_code, pos) ==
    LET status == _classify_status(status_code)
    IN  [endpoint |-> endpoint, method |-> method, status_code |-> status_code,
         error |-> IF status # ERROR THEN None
                   ELSE "HTTP " \o ToString(status_code),
         status |-> status, pos |-> pos]

\* ExecutionResult.to_dict: the error key is present only for a truthy error.
to_dict(r) ==
    IF r.error # None /\ r.error # ""
    THEN [endpoint |-> r.endpoint, method |-> r.method,
          status_code |-> r.status_code, error |-> r.error]
    ELSE [endpoint |-> r.endpoint, method |-> r.method,
          status_code |-> r.status_code]

\* The positional fallback name, endpoint_<idx>, idx counted from 0.
FallbackName(pos) == "endpoint_" \o ToString(pos - 1)

\* Exceptions execute_single_endpoint catches: RequestException, ValueError.
Caught(exc) == exc \in {"RequestException", "ValueError"}

NoResult == from_error(None, None, 0)

\* execute_single_endpoint asking the transport a second time when the
\* request failed, before it gives the ERROR pair.
execute_single_endpoint_retrying(pos, endpoint_config_raw) ==
    LET endpoint_config == from_config(endpoint_config_raw)
        endpoint_name == IF endpoint_config.ok THEN endpoint_config.url ELSE None
        shown == IF endpoint_name = None \/ endpoint_name = ""
                 THEN FallbackName(pos) ELSE endpoint_name
        reply == Transport(endpoint_name)
    IN  IF ~endpoint_config.ok
        THEN IF Caught(endpoint_config.exc)
             THEN [raised |-> FALSE, exc |-> None, status |-> ERROR, calls |-> 0,
                   result |-> from_error(shown, endpoint_config.msg, pos)]
             ELSE [raised |-> TRUE, exc |-> endpoint_config.exc, status |-> None,
                   calls |-> 0, result |-> NoResult]
        ELSE IF reply.raised
        THEN IF Caught(reply.exc)
             THEN [raised |-> FALSE, exc |-> None, status |-> ERROR, calls |-> 2,
                   result |-> from_error(shown, reply.msg, pos)]
             ELSE [raised |-> TRUE, exc |-> reply.exc, status |-> None,
                   calls |-> 2, result |-> NoResult]
        ELSE LET result == from_response(endpoint_name, endpoint_config.method,
                                         reply.status_code, pos)
             IN  [raised |-> FALSE, exc |-> None, status |-> result.status,
                  calls |-> 1, result |-> result]

\* HTTPExecutor.execute_single_endpoint for the endpoint at position pos
\* (index pos - 1): a (status, result) pair, or the exception that escapes.
\* calls is the number of transport invocations it made.
execute_single_endpoint(pos, endpoint_config_raw) ==
    LET endpoint_config == from_config(endpoint_config_raw)
        endpoint_name == IF endpoint_config.ok THEN endpoint_config.url ELSE None
        shown == IF endpoint_name = None \/ endpoint_name = ""
                 THEN FallbackName(pos) ELSE endpoint_name
        reply == Transport(endpoint_name)
    IN  IF ~endpoint_config.ok
        THEN IF Caught(endpoint_config.exc)
             THEN [raised |-> FALSE, exc |-> None, status |-> ERROR, calls |-> 0,
                   result |-> from_error(shown, endpoint_config.msg, pos)]
             ELSE [raised |-> TRUE, exc |-> endpoint_config.exc, status |-> None,
                   calls |-> 0, result |-> NoResult]
        ELSE IF reply.raised
        THEN IF Caught(reply.exc)
             THEN [raised |-> FALSE, exc |-> None, status |-> ERROR, calls |-> 1,
                   result |-> from_error(shown, reply.msg, pos)]
             ELSE [raised |-> TRUE, exc |-> reply.exc, status |-> None,
                   calls |-> 1, result |-> NoResult]
        ELSE LET result == from_response(endpoint_name, endpoint_config.method,
                                         reply.status_code, pos)
             IN  [raised |-> FALSE, exc |-> None, status |-> result.status,
                  calls |-> 1, result |-> result]

----
\* Python exception classes that matter here, each with its base classes.
Bases(exc) ==
    CASE exc = "ConfigurationError" -> {"ConfigurationError", "Exception"}
      [] exc = "ValueError"         -> {"ValueError", "Exception"}
      [] exc = "AttributeError"     -> {"AttributeError", "Exception"}
      [] exc = "RequestException"   -> {"RequestException", "Exception"}
      [] OTHER                      -> {exc, "Exception"}

\* An except clause naming the classes in clause catches exc.
Catches(clause, exc) == Bases(exc) \cap clause # {}

\* All lists over S of length at most n.
Lists(S, n) == UNION {[1..k -> S] : k \in 0..n}

EndpointLists == Lists(Descriptors, MaxEndpoints)

\* Values of the ENDPOINTS environment variable, by what loading makes of it.
EnvKinds == {"unset", "empty", "undefined_var", "bad_json", "not_array",
             "empty_array", "array"}

EnvChoices ==
    {[kind |-> k, value |-> <<>>] : k \in EnvKinds \ {"array"}}
    \cup {[kind |-> "array", value |-> l] : l \in EndpointLists \ {<< >>}}

\* EndpointsLoader.load_from_env: the list, or the ConfigurationError raised.
load_from_env(env) ==
    IF env.kind \in {"unset", "empty"}
    THEN [ok |-> FALSE, exc |-> "ConfigurationError", value |-> <<>>,
          msg |-> "ENDPOINTS environment variable is not set"]
    ELSE IF env.kind = "undefined_var"
    THEN [ok |-> FALSE, exc |-> "ConfigurationError", value |-> <<>>,
          msg |-> "Template variable referenced in ENDPOINTS is not defined"]
    ELSE IF env.kind = "bad_json"
    THEN [ok |-> FALSE, exc |-> "ConfigurationError", value |-> <<>>,
          msg |-> "Error parsing ENDPOINTS"]
    ELSE IF env.kind = "not_array"
    THEN [ok |-> FALSE, exc |-> "ConfigurationError", value |-> <<>>,
          msg |-> "ENDPOINTS must be a JSON array"]
    ELSE IF env.value = <<>>
    THEN [ok |-> FALSE, exc |-> "ConfigurationError", value |-> <<>>,
          msg |-> "ENDPOINTS array cannot be empty"]
    ELSE [ok |-> TRUE, exc |-> None, value |-> env.value, msg |-> None]

\* The module global ENDPOINTS_TO_EXECUTE: None, or a list set by a caller.
GlobalChoices ==
    {[isNone |-> TRUE, value |-> <<>>]}
    \cup {[isNone |-> FALSE, value |-> l] : l \in EndpointLists}

\* "ENDPOINTS_TO_EXECUTE if ... is not None else load_endpoints_from_env()"
configured_endpoints(global, env) ==
    IF ~global.isNone
    THEN [ok |-> TRUE, exc |-> None, value |-> global.value, msg |-> None]
    ELSE load_from_env(env)

----
\* The API-key gate.
ApiKeys == {None, "", "s3cret"}
Headers == {None, "", "s3cret", "wrong", TestKey}

\* validate with the comparison ahead of the test for a missing key.
validate_compare_first(api_key, provided_key) ==
    IF api_key = None THEN 0
    ELSE IF provided_key # api_key THEN 403
    ELSE IF provided_key = None \/ provided_key = "" THEN 401
    ELSE 0

\* APIKeyAuthenticator.validate: 0 when it returns, else the status_code of
\* the AuthenticationError it raises.
validate(api_key, provided_key) ==
    IF api_key = None THEN 0
    ELSE IF provided_key = None \/ provided_key = "" THEN 401
    ELSE IF provided_key # api_key THEN 403
    ELSE 0

\* The gate's decision with the test key accepted whatever the TESTING flag.
gate_decision_test_key_always(api_key, is_testing, provided_key) ==
    IF provided_key = TestKey THEN 0 ELSE validate(api_key, provided_key)

\* decorated_function: 0 when the wrapped handler is called, else the status
\* of the rejection.
gate_decision(api_key, is_testing, provided_key) ==
    IF is_testing /\ provided_key = TestKey THEN 0
    ELSE validate(api_key, provided_key)

----
\* ExecutionSummary.success
success(s) == s.failed = 0 /\ s.warnings = 0

\* ExecutionSummary.has_errors
has_errors(s) == s.failed > 0

\* ExecutionSummary.has_warnings
has_warnings(s) == s.warnings > 0

\* get_http_status with the warnings test ahead of the errors test.
get_http_status_warnings_first(s) ==
    IF has_warnings(s) THEN 207
    ELSE IF has_errors(s) THEN 500
    ELSE 200

\* ExecutionSummary.get_http_status
get_http_status(s) ==
    IF has_errors(s) THEN 500
    ELSE IF has_warnings(s) THEN 207
    ELSE 200

\* [x.to_dict() for x in bucket]
Dicts(bucket) == [i \in 1..Len(bucket) |-> to_dict(bucket[i])]

\* min(a, b)
Min(a, b) == IF a < b THEN a ELSE b

\* "len(endpoints) or 1"
LenOr1(l) == IF Len(l) = 0 THEN 1 ELSE Len(l)

----
\* Loading the endpoints from the environment. A text is a sequence of
\* tokens: the punctuation of a JSON array, a string literal, a number and
\* the placeholders ${A} and ${B}.

VarNames == {"A", "B"}
Placeholder(var_name) == "${" \o var_name \o "}"
Tokens == {"[", "]", ",", "'u'", "7"} \cup {Placeholder(v) : v \in VarNames}
Texts == UNION {[1..k -> Tokens] : k \in 0..MaxText}

\* An environment variable: unset, or set to a text.
Unset == [set |-> FALSE, text |-> <<>>]
SetTo(text) == [set |-> TRUE, text |-> text]

\* The environments: ENDPOINTS unset or any text, A and B unset or one of a
\* few values (empty, a string literal, a further placeholder, a bracket).
Environs ==
    [ENDPOINTS : {Unset} \cup {SetTo(t) : t \in Texts},
     A : {Unset, SetTo(<<>>), SetTo(<<"'u'">>), SetTo(<<Placeholder("B")>>)},
     B : {Unset, SetTo(<<"'u'">>), SetTo(<<"]">>)}]

\* os.getenv(name)
getenv(env, name) ==
    CASE name = "A" -> env.A
      [] name = "B" -> env.B
      [] OTHER      -> env.ENDPOINTS

\* re.findall(r"\$\{([^}]+)\}", text): the names of the placeholders, in
\* order of occurrence.
RECURSIVE findall(_)
findall(text) ==
    IF text = <<>> THEN <<>>
    ELSE LET here == {v \in VarNames : Head(text) = Placeholder(v)}
         IN  IF here = {} THEN findall(Tail(text))
             ELSE <<CHOOSE v \in here : TRUE>> \o findall(Tail(text))

\* str.replace(old, new) for the token old
RECURSIVE replace(_, _, _)
replace(text, old, new) ==
    IF text = <<>> THEN <<>>
    ELSE (IF Head(text) = old THEN new ELSE <<Head(text)>>)
         \o replace(Tail(text), old, new)

\* The loop of TemplateResolver.resolve over the matches.
RECURSIVE resolve_matches(_, _, _)
resolve_matches(matches, result, env) ==
    IF matches = <<>>
    THEN [ok |-> TRUE, var_name |-> None, text |-> result]
    ELSE LET var_name == Head(matches)
             var_value == getenv(env, var_name)
         IN  IF ~var_value.set
             THEN [ok |-> FALSE, var_name |-> var_name, text |-> <<>>]
             ELSE resolve_matches(Tail(matches),
                                  replace(result, Placeholder(var_name),
                                          var_value.text),
                                  env)

\* TemplateResolver.resolve: the text with its placeholders replaced, or the
\* name of the undefined variable of the ConfigurationError.
resolve(text, env) == resolve_matches(findall(text), text, env)

\* JSON values.
JsonStr == [t |-> "str", items |-> <<>>]
JsonNum == [t |-> "num", items |-> <<>>]
JsonList(items) == [t |-> "list", items |-> items]
NoParse == [ok |-> FALSE, next |-> 0, val |-> JsonNum]

\* json.loads on a text: the value starting at token i, and the items of an
\* array up to its closing bracket.
RECURSIVE parse_value(_, _)
RECURSIVE parse_items(_, _, _)
parse_value(text, i) ==
    IF i > Len(text) THEN NoParse
    ELSE IF text[i] = "'u'" THEN [ok |-> TRUE, next |-> i + 1, val |-> JsonStr]
    ELSE IF text[i] = "7" THEN [ok |-> TRUE, next |-> i + 1, val |-> JsonNum]
    ELSE IF text[i] = "["
    THEN IF i + 1 <= Len(text) /\ text[i + 1] = "]"
         THEN [ok |-> TRUE, next |-> i + 2, val |-> JsonList(<<>>)]
         ELSE parse_items(text, i + 1, <<>>)
    ELSE NoParse

parse_items(text, i, items) ==
    LET v == parse_value(text, i)
    IN  IF ~v.ok \/ v.next > Len(text) THEN NoParse
        ELSE IF text[v.next] = ","
        THEN parse_items(text, v.next + 1, Append(items, v.val))
        ELSE IF text[v.next] = "]"
        THEN [ok |-> TRUE, next |-> v.next + 1,
              val |-> JsonList(Append(items, v.val))]
        ELSE NoParse

\* json.loads(text): the value, or JSONDecodeError.
json_loads(text) ==
    LET v == parse_value(text, 1)
    IN  IF v.ok /\ v.next = Len(text) + 1 THEN v ELSE NoParse

\* What load_endpoints_from_env gives: the list, or the ConfigurationError
\* with its message and the variable the message names.
Returned(endpoints_list, resolved) ==
    [called |-> TRUE, ok |-> TRUE, exc |-> None, msg |-> None, var_name |-> None,
     value |-> endpoints_list, resolved |-> resolved]
ConfigurationError(msg, var_name) ==
    [called |-> TRUE, ok |-> FALSE, exc |-> "ConfigurationError", msg |-> msg,
     var_name |-> var_name, value |-> <<>>, resolved |-> <<>>]

\* The loader without the call of TemplateResolver.resolve: the text is
\* parsed as it stands.
load_endpoints_from_env_unresolved(env) ==
    LET endpoints_str == getenv(env, "ENDPOINTS")
        parsed == json_loads(endpoints_str.text)
    IN  IF ~endpoints_str.set \/ endpoints_str.text = <<>>
        THEN ConfigurationError("ENDPOINTS environment variable is not set", None)
        ELSE IF ~parsed.ok
        THEN ConfigurationError("Error parsing ENDPOINTS", None)
        ELSE IF parsed.val.t # "list"
        THEN ConfigurationError("ENDPOINTS must be a JSON array", None)
        ELSE IF parsed.val.items = <<>>
        THEN ConfigurationError("ENDPOINTS array cannot be empty", None)
        ELSE Returned(parsed.val.items, endpoints_str.text)

\* load_endpoints_from_env, that is EndpointsLoader.load_from_env.
load_endpoints_from_env(env) ==
    LET endpoints_str == getenv(env, "ENDPOINTS")
        resolved == resolve(endpoints_str.text, env)
        parsed == json_loads(resolved.text)
    IN  IF ~endpoints_str.set \/ endpoints_str.text = <<>>
        THEN ConfigurationError("ENDPOINTS environment variable is not set", None)
        ELSE IF ~resolved.ok
        THEN ConfigurationError("Template variable referenced in ENDPOINTS is not defined",
                                resolved.var_name)
        ELSE IF ~parsed.ok
        THEN ConfigurationError("Error parsing ENDPOINTS", None)
        ELSE IF parsed.val.t # "list"
        THEN ConfigurationError("ENDPOINTS must be a JSON array", None)
        ELSE IF parsed.val.items = <<>>
        THEN ConfigurationError("ENDPOINTS array cannot be empty", None)
        ELSE Returned(parsed.val.items, resolved.text)

NoEnviron == [ENDPOINTS |-> Unset, A |-> Unset, B |-> Unset]
NotLoaded == [called |-> FALSE, ok |-> FALSE, exc |-> None, msg |-> None,
              var_name |-> None, value |-> <<>>, resolved |-> <<>>]

\* The bucket counts of a call of execute that has not happened.
NoRun == [done |-> FALSE, successes |-> 0, warnings |-> 0, errors |-> 0]

----
\* The body of one request.

\* The values a body, a json field or a default payload can have, each
\* marked with the place it comes from.
PyNone == [origin |-> "none", val |-> "None"]
PyValues(origin) ==
    {PyNone} \cup {[origin |-> origin, val |-> v] : v \in {"''", "'raw'", "{}", "{k: v}"}}

\* bool(x), and isinstance(x, dict)
Truthy(x) == x.val \notin {"None", "''", "{}"}
IsDict(x) == x.val \in {"{}", "{k: v}"}

\* a or b
Or(a, b) == IF Truthy(a) THEN a ELSE b

\* HTTPExecutor.execute_request: the json= and data= arguments it passes to
\* requests.request.
execute_request(endpoint_config, default_payload) ==
    LET chosen == Or(endpoint_config.json_data, endpoint_config.body)
        body == IF chosen = PyNone /\ Truthy(default_payload)
                THEN default_payload ELSE chosen
    IN  [called |-> TRUE,
         json |-> IF body # PyNone /\ IsDict(body) THEN body ELSE PyNone,
         data |-> IF body # PyNone /\ ~IsDict(body) THEN body ELSE PyNone]

NoBodyIn == [endpoint_config |-> [body |-> PyNone, json_data |-> PyNone],
             default_payload |-> PyNone]
NotCalled == [called |-> FALSE, json |-> PyNone, data |-> PyNone]

----
\* Values of the variables while no request uses them.
NoReq == [route |-> None, method |-> None]
NoGate == [api_key |-> None, testing |-> FALSE, decision |-> -1]
NoMode == [parallel |-> FALSE, max_workers |-> 0, send_email |-> FALSE,
           keys |-> {}]
NoSummary == [built |-> FALSE]
NoResponse == [kind |-> "none", by |-> None, status |-> 0, exc |-> None,
               body |-> <<>>]
NoTrace == [loads |-> 0, load_error |-> None, resolved |-> <<>>, sent |-> <<>>,
            notified |-> 0, smtp |-> 0, handler |-> FALSE,
            completed |-> <<>>, snapshot |-> 0]

\* A JSON response returned by a handler or by the gate.
Json(by, status, body) ==
    [kind |-> "json", by |-> by, status |-> status, exc |-> None, body |-> body]

\* An exception that leaves the view function: no handler response exists and
\* the framework answers with its own internal-error page.
Unhandled(by, exc) ==
    [kind |-> "unhandled", by |-> by, status |-> 500, exc |-> exc, body |-> <<>>]

Routes == {[route |-> "/execute", method |-> "GET"],
           [route |-> "/execute", method |-> "POST"],
           [route |-> "/task1", method |-> "POST"],
           [route |-> "/health", method |-> "GET"]}

Protected(route) == route # "/health"

Init ==
    /\ pc = "idle"
    /\ req = NoReq
    /\ cred = None
    /\ gate = NoGate
    /\ mode = NoMode
    /\ endpoints = <<>>
    /\ idx = 0
    /\ results = <<>>
    /\ warnings = <<>>
    /\ errors = <<>>
    /\ tasks = <<>>
    /\ ready = <<>>
    /\ collecting = FALSE
    /\ raised = None
    /\ summary = NoSummary
    /\ response = NoResponse
    /\ trace = NoTrace
    /\ statusCode = 0
    /\ classified = None
    /\ bodyIn = NoBodyIn
    /\ bodyOut = NotCalled
    /\ environ = NoEnviron
    /\ loaded = NotLoaded
    /\ firstRun = NoRun

\* A request arrives; the previous one, if any, has been answered.
Arrive ==
    /\ pc \in {"idle", "done"}
    /\ \E r \in Routes, h \in Headers :
         /\ req' = [route |-> r.route, method |-> r.method]
         /\ cred' = h
         /\ pc' = IF Protected(r.route) THEN "gate" ELSE "handler"
    /\ gate' = NoGate
    /\ mode' = NoMode
    /\ endpoints' = <<>>
    /\ idx' = 0
    /\ results' = <<>>
    /\ warnings' = <<>>
    /\ errors' = <<>>
    /\ tasks' = <<>>
    /\ ready' = <<>>
    /\ collecting' = FALSE
    /\ raised' = None
    /\ summary' = NoSummary
    /\ response' = NoResponse
    /\ trace' = NoTrace
    /\ UNCHANGED <<statusCode, classified, bodyIn, bodyOut, environ, loaded, firstRun>>

\* Body of the 401 and 403 answers.
Rejection(status) ==
    IF status = 401
    THEN [error |-> "Missing X-API-Key header",
          message |-> "Missing X-API-Key header. This endpoint requires authentication."]
    ELSE [error |-> "Invalid X-API-Key",
          message |-> "Invalid X-API-Key. The provided API key is not valid."]

\* decorated_function without the return in front of the rejection.
after_gate_fall_through(decision) == "handler"

\* Where decorated_function goes on: into the wrapped handler, or back to
\* the client with the rejection.
after_gate(decision) == IF decision = 0 THEN "handler" ELSE "done"

\* require_api_key's decorated_function, up to the call of the handler:
\* reloads the configuration, reads the header and the TESTING flag, then
\* either calls the wrapped handler or answers 401/403.
decorated_function ==
    /\ pc = "gate"
    /\ \E api_key \in ApiKeys, is_testing \in BOOLEAN :
         LET decision == gate_decision(api_key, is_testing, cred)
         IN  /\ gate' = [api_key |-> api_key, testing |-> is_testing,
                         decision |-> decision]
             /\ pc' = after_gate(decision)
             /\ response' = IF decision = 0 THEN response
                            ELSE Json("gate", decision, Rejection(decision))
    /\ UNCHANGED <<req, cred, mode, endpoints, idx, results, warnings, errors, tasks,
                   ready, collecting, raised, summary, trace, statusCode,
                   classified, bodyIn, bodyOut, environ, loaded, firstRun>>

\* health() and task1(): handlers that touch no endpoint.
simple_handler ==
    /\ pc = "handler"
    /\ req.route \in {"/health", "/task1"}
    /\ response' = Json(req.route, 200, <<>>)
    /\ trace' = [trace EXCEPT !.handler = TRUE]
    /\ pc' = "done"
    /\ cred' = None
    /\ gate' = NoGate
    /\ UNCHANGED <<req, mode, endpoints, idx, results, warnings, errors,
                   tasks, ready, collecting, raised, summary, statusCode,
                   classified, bodyIn, bodyOut, environ, loaded, firstRun>>

\* The except clauses of execute_endpoints.
GetLoadClause == {"ValueError"}
GetExecuteClause == {"Exception"}
PostLoadClause == {"ValueError", "Exception"}

\* The body every GET /execute answer shares.
GetBody(ok, rs, total, ws, es, nfailed) ==
    [success |-> ok, results |-> rs, total_endpoints |-> total,
     details |-> [warnings |-> ws, errors |-> es], failed |-> nfailed,
     warnings |-> Len(ws), successful |-> Len(rs),
     execution_mode |-> "sequential"]

\* execute_endpoints, GET, up to the creation of the executor: reads the
\* configured endpoints (only ValueError is caught), answers the
\* zero-endpoint body for an empty list.
execute_endpoints_get ==
    /\ pc = "handler"
    /\ req.route = "/execute" /\ req.method = "GET"
    /\ \E global \in GlobalChoices :
         \E env \in IF global.isNone THEN EnvChoices ELSE {[kind |-> "unset", value |-> <<>>]} :
           LET cfg == configured_endpoints(global, env)
               caught == ~cfg.ok /\ Catches(GetLoadClause, cfg.exc)
               eps == IF cfg.ok THEN cfg.value ELSE <<>>
           IN  /\ mode' = [parallel |-> FALSE,
                           max_workers |-> Min(DefaultWorkers, LenOr1(eps)),
                           send_email |-> FALSE,
                           keys |-> {}]
               /\ endpoints' = eps
               /\ trace' = [trace EXCEPT !.handler = TRUE, !.loads = @ + 1,
                                         !.load_error = cfg.exc]
               /\ IF ~cfg.ok /\ ~caught
                  THEN /\ response' = Unhandled("execute", cfg.exc)
                       /\ pc' = "done"
                  ELSE IF eps = <<>>
                  THEN /\ response' = Json("execute", 200,
                                           GetBody(FALSE, <<>>, 0, <<>>, <<>>, 0))
                       /\ pc' = "done"
                  ELSE /\ response' = response
                       /\ pc' = "execute"
    /\ cred' = None
    /\ gate' = NoGate
    /\ UNCHANGED <<req, idx, results, warnings, errors, tasks, ready,
                   collecting, raised, summary, statusCode, classified, bodyIn, bodyOut, environ, loaded, firstRun>>

\* What a POST body can carry.
BodyEndpoints ==
    {[given |-> FALSE, value |-> <<>>]}
    \cup {[given |-> TRUE, value |-> l] : l \in EndpointLists}
BodyParallel == {Absent, "true", "false"}
BodyWorkers == {-1} \cup (0..MaxWorkersAsked)
BodyMail == {Absent, "true", "false"}

\* The keys of the execution settings that a body carries.
BodyKeys(par, mw, mail) ==
    {k \in {"parallel", "max_workers", "send_email"} :
        \/ k = "parallel" /\ par # Absent
        \/ k = "max_workers" /\ mw # -1
        \/ k = "send_email" /\ mail # Absent}

\* execute_endpoints, POST, up to the creation of the executor: takes the
\* endpoints of the body or else the configured ones (any exception while
\* loading gives the empty list), then the execution settings.
execute_endpoints_post ==
    /\ pc = "handler"
    /\ req.route = "/execute" /\ req.method = "POST"
    /\ \E b \in BodyEndpoints :
         \E global \in IF b.given THEN {[isNone |-> TRUE, value |-> <<>>]} ELSE GlobalChoices :
           \E env \in IF b.given \/ ~global.isNone
                      THEN {[kind |-> "unset", value |-> <<>>]} ELSE EnvChoices :
             \E par \in BodyParallel, mw \in BodyWorkers, mail \in BodyMail :
               LET cfg == configured_endpoints(global, env)
                   failedLoad == ~b.given /\ ~cfg.ok
                   caught == failedLoad /\ Catches(PostLoadClause, cfg.exc)
                   eps == IF b.given THEN b.value
                          ELSE IF cfg.ok THEN cfg.value
                          ELSE <<>>
               IN  /\ endpoints' = eps
                   /\ mode' = [parallel |-> (par # "false"),
                               max_workers |-> IF mw = -1
                                               THEN Min(DefaultWorkers, LenOr1(eps))
                                               ELSE mw,
                               send_email |-> (mail = "true"),
                               keys |-> BodyKeys(par, mw, mail)]
                   /\ trace' = [trace EXCEPT !.handler = TRUE,
                                  !.loads = IF b.given THEN @ ELSE @ + 1,
                                  !.load_error = IF b.given THEN None ELSE cfg.exc]
                   /\ IF failedLoad /\ ~caught
                      THEN /\ response' = Unhandled("execute", cfg.exc)
                           /\ pc' = "done"
                      ELSE /\ response' = response
                           /\ pc' = "execute"
    /\ cred' = None
    /\ gate' = NoGate
    /\ UNCHANGED <<req, idx, results, warnings, errors, tasks, ready,
                   collecting, raised, summary, statusCode, classified, bodyIn, bodyOut, environ, loaded, firstRun>>

----
\* The executor.

\* The bucket choice without the WARNING branch: a warning goes with the
\* successes.
bucket_of_warning_as_success(status) ==
    IF status \in {SUCCESS, WARNING} THEN "results"
    ELSE "errors"

\* The bucket choice with no branch for WARNING and an elif for ERROR.
bucket_of_no_warning(status) ==
    IF status = SUCCESS THEN "results"
    ELSE IF status = ERROR THEN "errors"
    ELSE "none"

\* The if/elif/else that picks the bucket of a (status, result) pair.
bucket_of(status) ==
    IF status = SUCCESS THEN "results"
    ELSE IF status = WARNING THEN "warnings"
    ELSE "errors"

\* The bucketing with insert(0, result) in place of append(result).
Bucketed_insert_first(bucket, name, out) ==
    IF bucket_of(out.status) = name THEN <<out.result>> \o bucket ELSE bucket

\* The bucketing with "if" in place of "elif": the final else also takes
\* the SUCCESS pairs.
Bucketed_if_for_elif(bucket, name, out) ==
    IF name = "errors"
    THEN IF out.status # WARNING THEN Append(bucket, out.result) ELSE bucket
    ELSE IF bucket_of(out.status) = name THEN Append(bucket, out.result)
    ELSE bucket

\* bucket.append(result) when the pair goes to the bucket called name.
Bucketed(bucket, name, out) ==
    IF bucket_of(out.status) = name THEN Append(bucket, out.result) ELSE bucket

\* The trace of one execute_single_endpoint call: from_config was called for
\* pos, and the transport was invoked out.calls times.
Traced(t, pos, out) ==
    [t EXCEPT !.resolved = Append(@, pos),
              !.sent = @ \o [k \in 1..out.calls |-> pos]]

\* The choice of strategy on the parallel flag alone, without the test on
\* the number of endpoints.
execute_flag_only ==
    /\ pc = "execute"
    /\ IF ~mode.parallel
       THEN /\ pc' = "seq"
            /\ idx' = 1
       ELSE /\ pc' = "par"
            /\ idx' = idx
    /\ mode' = [mode EXCEPT !.keys = {}]
    /\ UNCHANGED <<req, cred, gate, endpoints, results, warnings, errors, tasks,
                   ready, collecting, raised, summary, response, trace,
                   statusCode, classified, bodyIn, bodyOut, environ, loaded, firstRun>>

\* HTTPExecutor.execute: chooses the strategy. The executor is given the
\* settings and never the body, whose keys are dropped here.
execute ==
    /\ pc = "execute"
    /\ IF ~mode.parallel \/ Len(endpoints) <= 1
       THEN /\ pc' = "seq"
            /\ idx' = 1
       ELSE /\ pc' = "par"
            /\ idx' = idx
    /\ mode' = [mode EXCEPT !.keys = {}]
    /\ UNCHANGED <<req, cred, gate, endpoints, results, warnings, errors, tasks,
                   ready, collecting, raised, summary, response, trace,
                   statusCode, classified, bodyIn, bodyOut, environ, loaded, firstRun>>

\* One iteration of the loop of execute_sequential; an exception that
\* execute_single_endpoint lets through ends the loop.
execute_sequential ==
    /\ pc = "seq"
    /\ idx <= Len(endpoints)
    /\ LET out == execute_single_endpoint(idx, endpoints[idx])
       IN  /\ trace' = Traced(trace, idx, out)
           /\ IF out.raised
              THEN /\ raised' = out.exc
                   /\ pc' = "unwind"
                   /\ UNCHANGED <<idx, results, warnings, errors>>
              ELSE /\ results' = Bucketed(results, "results", out)
                   /\ warnings' = Bucketed(warnings, "warnings", out)
                   /\ errors' = Bucketed(errors, "errors", out)
                   /\ idx' = idx + 1
                   /\ UNCHANGED <<raised, pc>>
    /\ UNCHANGED <<req, cred, gate, mode, endpoints, tasks, ready, collecting, summary,
                   response, statusCode, classified, bodyIn, bodyOut, environ, loaded, firstRun>>

\* execute_sequential returns its three buckets.
execute_sequential_return ==
    /\ pc = "seq"
    /\ idx > Len(endpoints)
    /\ pc' = "returned"
    /\ UNCHANGED <<req, cred, gate, mode, endpoints, idx, results, warnings, errors,
                   tasks, ready, collecting, raised, summary, response, trace,
                   statusCode, classified, bodyIn, bodyOut, environ, loaded, firstRun>>

\* A future of the pool.
NoOut == [raised |-> FALSE, exc |-> None, status |-> None, calls |-> 0,
          result |-> NoResult]
Queued == [state |-> "queued", out |-> NoOut]

Running == {i \in 1..Len(tasks) : tasks[i].state = "running"}
QueuedTasks == {i \in 1..Len(tasks) : tasks[i].state = "queued"}
Finished == {i \in 1..Len(tasks) : tasks[i].state \in {"finished", "collected"}}

\* execute_parallel up to the end of the submissions: ThreadPoolExecutor
\* refuses max_workers <= 0 with ValueError, else every endpoint is
\* submitted, in input order.
execute_parallel_submit ==
    /\ pc = "par"
    /\ IF mode.max_workers <= 0
       THEN /\ raised' = "ValueError"
            /\ pc' = "unwind"
            /\ tasks' = tasks
       ELSE /\ tasks' = [i \in 1..Len(endpoints) |-> Queued]
            /\ pc' = "par_run"
            /\ raised' = raised
    /\ UNCHANGED <<req, cred, gate, mode, endpoints, idx, results, warnings, errors,
                   ready, collecting, summary, response, trace, statusCode,
                   classified, bodyIn, bodyOut, environ, loaded, firstRun>>

\* A free worker takes the oldest queued task and starts
\* execute_single_endpoint: the descriptor is resolved and, if that works,
\* the request is issued.
worker_start ==
    /\ pc \in {"par_run", "par_shutdown"}
    /\ QueuedTasks # {}
    /\ Cardinality(Running) < mode.max_workers
    /\ LET i == CHOOSE j \in QueuedTasks : \A k \in QueuedTasks : j <= k
           out == execute_single_endpoint(i, endpoints[i])
       IN  /\ tasks' = [tasks EXCEPT ![i] = [state |-> "running", out |-> out]]
           /\ trace' = Traced(trace, i, out)
    /\ UNCHANGED <<pc, req, cred, gate, mode, endpoints, idx, results, warnings, errors,
                   ready, collecting, raised, summary, response, statusCode,
                   classified, bodyIn, bodyOut, environ, loaded, firstRun>>

\* A running task ends as it would if the worker thread put its result into
\* the bucket itself instead of returning it to the calling thread.
worker_finish_appending ==
    /\ pc \in {"par_run", "par_shutdown"}
    /\ \E i \in Running :
         /\ tasks' = [tasks EXCEPT ![i].state = "finished"]
         /\ ready' = IF collecting /\ pc = "par_run" THEN Append(ready, i) ELSE ready
         /\ trace' = [trace EXCEPT !.completed = Append(@, i)]
         /\ IF tasks[i].out.raised
            THEN UNCHANGED <<results, warnings, errors>>
            ELSE /\ results' = Bucketed(results, "results", tasks[i].out)
                 /\ warnings' = Bucketed(warnings, "warnings", tasks[i].out)
                 /\ errors' = Bucketed(errors, "errors", tasks[i].out)
    /\ UNCHANGED <<pc, req, cred, gate, mode, endpoints, idx,
                   collecting, raised, summary, response, statusCode,
                   classified, bodyIn, bodyOut, environ, loaded, firstRun>>

\* A task's end with the waiter handing the newest finished future first.
worker_finish_newest_first ==
    /\ pc \in {"par_run", "par_shutdown"}
    /\ \E i \in Running :
         /\ tasks' = [tasks EXCEPT ![i].state = "finished"]
         /\ ready' = IF collecting /\ pc = "par_run" THEN <<i>> \o ready ELSE ready
         /\ trace' = [trace EXCEPT !.completed = Append(@, i)]
    /\ UNCHANGED <<pc, req, cred, gate, mode, endpoints, idx, results, warnings, errors,
                   collecting, raised, summary, response, statusCode,
                   classified, bodyIn, bodyOut, environ, loaded, firstRun>>

\* A running task ends: its future holds the pair or the exception.  A
\* future that finishes after as_completed started is handed to it in
\* completion order.
worker_finish ==
    /\ pc \in {"par_run", "par_shutdown"}
    /\ \E i \in Running :
         /\ tasks' = [tasks EXCEPT ![i].state = "finished"]
         /\ ready' = IF collecting /\ pc = "par_run" THEN Append(ready, i) ELSE ready
         /\ trace' = [trace EXCEPT !.completed = Append(@, i)]
    /\ UNCHANGED <<pc, req, cred, gate, mode, endpoints, idx, results, warnings, errors,
                   collecting, raised, summary, response, statusCode,
                   classified, bodyIn, bodyOut, environ, loaded, firstRun>>

\* All orders of a finite set.
Orders(S) == {q \in [1..Cardinality(S) -> S] : \A i, j \in 1..Cardinality(S) : i # j => q[i] # q[j]}

\* as_completed starts: the futures already finished are yielded first, in
\* the iteration order of a set, which is any order.
as_completed_start ==
    /\ pc = "par_run"
    /\ ~collecting
    /\ collecting' = TRUE
    /\ \E q \in Orders(Finished) : ready' = q
    /\ trace' = [trace EXCEPT !.snapshot = Len(trace.completed)]
    /\ UNCHANGED <<pc, req, cred, gate, mode, endpoints, idx, results, warnings, errors,
                   tasks, raised, summary, response, statusCode,
                   classified, bodyIn, bodyOut, environ, loaded, firstRun>>

\* One iteration of "for future in as_completed": future.result() returns
\* the pair, which is bucketed, or re-raises the task's exception, which
\* leaves the with block.
collect ==
    /\ pc = "par_run"
    /\ collecting
    /\ ready # <<>>
    /\ LET i == Head(ready)
           out == tasks[i].out
       IN  /\ ready' = Tail(ready)
           /\ tasks' = [tasks EXCEPT ![i].state = "collected"]
           /\ IF out.raised
              THEN /\ raised' = out.exc
                   /\ pc' = "par_shutdown"
                   /\ UNCHANGED <<results, warnings, errors>>
              ELSE /\ results' = Bucketed(results, "results", out)
                   /\ warnings' = Bucketed(warnings, "warnings", out)
                   /\ errors' = Bucketed(errors, "errors", out)
                   /\ UNCHANGED <<raised, pc>>
    /\ UNCHANGED <<req, cred, gate, mode, endpoints, idx, collecting, summary, response,
                   trace, statusCode, classified, bodyIn, bodyOut, environ, loaded, firstRun>>

\* The end of the with block as shutdown(wait=False) would make it: the
\* exception goes on while tasks are still queued or running.
execute_parallel_exit_no_wait ==
    /\ \/ /\ pc = "par_run"
          /\ collecting
          /\ \A i \in 1..Len(tasks) : tasks[i].state = "collected"
          /\ pc' = "returned"
       \/ /\ pc = "par_shutdown"
          /\ pc' = "unwind"
    /\ trace' = [trace EXCEPT !.completed = <<>>, !.snapshot = 0]
    /\ UNCHANGED <<req, cred, gate, mode, endpoints, idx, results, warnings, errors,
                   tasks, ready, collecting, raised, summary, response,
                   statusCode, classified, bodyIn, bodyOut, environ, loaded, firstRun>>

\* The with block ends: shutdown(wait=True) returns once no task is queued
\* or running; execute_parallel then returns the buckets, or the exception
\* goes on. The order in which the futures completed goes with the pool.
execute_parallel_exit ==
    /\ \/ /\ pc = "par_run"
          /\ collecting
          /\ \A i \in 1..Len(tasks) : tasks[i].state = "collected"
          /\ pc' = "returned"
       \/ /\ pc = "par_shutdown"
          /\ QueuedTasks = {} /\ Running = {}
          /\ pc' = "unwind"
    /\ trace' = [trace EXCEPT !.completed = <<>>, !.snapshot = 0]
    /\ UNCHANGED <<req, cred, gate, mode, endpoints, idx, results, warnings, errors,
                   tasks, ready, collecting, raised, summary, response,
                   statusCode, classified, bodyIn, bodyOut, environ, loaded, firstRun>>

----
\* Back in execute_endpoints.

\* str(ex) of an exception that left the executor.
ExcText(exc) ==
    CASE exc = "AttributeError" -> "object has no attribute 'upper'"
      [] exc = "ValueError"     -> "max_workers must be greater than 0"
      [] OTHER                  -> exc

\* An exception left executor.execute: the GET path answers its
\* executor-exception body, the POST path has no handler for it.
executor_raised ==
    /\ pc = "unwind"
    /\ IF req.method = "GET" /\ Catches(GetExecuteClause, raised)
       THEN response' = Json("execute", 500,
                GetBody(FALSE, <<>>, Len(endpoints), <<>>, <<ExcText(raised)>>,
                        Len(endpoints)))
       ELSE response' = Unhandled("execute", raised)
    /\ pc' = "done"
    /\ UNCHANGED <<req, cred, gate, mode, endpoints, idx, results, warnings, errors,
                   tasks, ready, collecting, raised, summary, trace, statusCode,
                   classified, bodyIn, bodyOut, environ, loaded, firstRun>>

\* execute_endpoints, GET, after the executor returned.
execute_endpoints_get_respond ==
    /\ pc = "returned"
    /\ req.method = "GET"
    /\ LET failed == Len(errors)
       IN  response' = Json("execute", IF failed = 0 THEN 200 ELSE 500,
                GetBody(failed = 0, Dicts(results), Len(endpoints),
                        Dicts(warnings), Dicts(errors), failed))
    /\ pc' = "done"
    /\ UNCHANGED <<req, cred, gate, mode, endpoints, idx, results, warnings, errors,
                   tasks, ready, collecting, raised, summary, trace, statusCode,
                   classified, bodyIn, bodyOut, environ, loaded, firstRun>>

\* The email_notification values.
NoEmail == [set |-> FALSE, email_sent |-> FALSE, reason |-> None, error |-> None,
            attachments |-> 0]
EmailNotRequested == [set |-> TRUE, email_sent |-> FALSE,
                      reason |-> "Email notification was not requested",
                      error |-> None, attachments |-> 0]
EmailSent(n) == [set |-> TRUE, email_sent |-> TRUE, reason |-> None,
                 error |-> None, attachments |-> n]
EmailFailed(text) == [set |-> TRUE, email_sent |-> FALSE, reason |-> None,
                      error |-> text, attachments |-> 0]

\* execute_endpoints, POST: builds the ExecutionSummary from the buckets.
build_summary ==
    /\ pc = "returned"
    /\ req.method = "POST"
    /\ summary' = [built |-> TRUE,
                   total_endpoints |-> Len(endpoints),
                   successful |-> Len(results),
                   warnings |-> Len(warnings),
                   failed |-> Len(errors),
                   results |-> Dicts(results),
                   details |-> [warnings |-> Dicts(warnings),
                                errors |-> Dicts(errors)],
                   execution_mode |-> IF mode.parallel /\ Len(endpoints) > 1
                                      THEN "parallel" ELSE "sequential",
                   email_notification |-> NoEmail]
    /\ pc' = "notify"
    /\ UNCHANGED <<req, cred, gate, mode, endpoints, idx, results, warnings, errors,
                   tasks, ready, collecting, raised, response, trace, statusCode,
                   classified, bodyIn, bodyOut, environ, loaded, firstRun>>

\* What EmailNotificationService.send_notification can meet.
SmtpOutcomes == {"sent", "incomplete", "smtp_error"}

\* The notification step without its test of send_email: the mail is
\* attempted for every POST.
_handle_email_notification_always ==
    /\ pc = "notify"
    /\ \E o \in SmtpOutcomes :
          /\ summary' = [summary EXCEPT !.email_notification =
                CASE o = "sent" ->
                       EmailSent(Len(summary.results)
                                 + Len(summary.details.warnings)
                                 + Len(summary.details.errors))
                  [] o = "incomplete" ->
                       EmailFailed("Email configuration incomplete")
                  [] OTHER -> EmailFailed("SMTP error")]
          /\ trace' = [trace EXCEPT !.notified = @ + 1,
                         !.smtp = IF o = "incomplete" THEN @ ELSE @ + 1]
    /\ pc' = "respond"
    /\ UNCHANGED <<req, cred, gate, mode, endpoints, idx, results, warnings, errors,
                   tasks, ready, collecting, raised, response, statusCode,
                   classified, bodyIn, bodyOut, environ, loaded, firstRun>>

\* The notification step with an SMTP error that is not caught: the
\* exception leaves the handler.
_handle_email_notification_raises ==
    /\ pc = "notify"
    /\ IF ~mode.send_email
       THEN /\ summary' = [summary EXCEPT !.email_notification = EmailNotRequested]
            /\ trace' = trace
            /\ response' = response
            /\ pc' = "respond"
       ELSE \E o \in SmtpOutcomes :
              /\ summary' = [summary EXCEPT !.email_notification =
                    CASE o = "sent" ->
                           EmailSent(Len(summary.results)
                                     + Len(summary.details.warnings)
                                     + Len(summary.details.errors))
                      [] o = "incomplete" ->
                           EmailFailed("Email configuration incomplete")
                      [] OTHER -> @]
              /\ trace' = [trace EXCEPT !.notified = @ + 1,
                             !.smtp = IF o = "incomplete" THEN @ ELSE @ + 1]
              /\ response' = IF o = "smtp_error"
                             THEN Unhandled("execute", "SMTPException")
                             ELSE response
              /\ pc' = IF o = "smtp_error" THEN "done" ELSE "respond"
    /\ UNCHANGED <<req, cred, gate, mode, endpoints, idx, results, warnings, errors,
                   tasks, ready, collecting, raised, statusCode,
                   classified, bodyIn, bodyOut, environ, loaded, firstRun>>

\* _handle_email_notification: records why nothing was sent, or calls
\* send_notification once and records its result.
_handle_email_notification ==
    /\ pc = "notify"
    /\ IF ~mode.send_email
       THEN /\ summary' = [summary EXCEPT !.email_notification = EmailNotRequested]
            /\ trace' = trace
       ELSE \E o \in SmtpOutcomes :
              /\ summary' = [summary EXCEPT !.email_notification =
                    CASE o = "sent" ->
                           EmailSent(Len(summary.results)
                                     + Len(summary.details.warnings)
                                     + Len(summary.details.errors))
                      [] o = "incomplete" ->
                           EmailFailed("Email configuration incomplete")
                      [] OTHER -> EmailFailed("SMTP error")]
              /\ trace' = [trace EXCEPT !.notified = @ + 1,
                             !.smtp = IF o = "incomplete" THEN @ ELSE @ + 1]
    /\ pc' = "respond"
    /\ UNCHANGED <<req, cred, gate, mode, endpoints, idx, results, warnings, errors,
                   tasks, ready, collecting, raised, response, statusCode,
                   classified, bodyIn, bodyOut, environ, loaded, firstRun>>

\* ExecutionSummary.to_dict
summary_to_dict(s) ==
    [success |-> success(s),
     total_endpoints |-> s.total_endpoints,
     successful |-> s.successful,
     warnings |-> s.warnings,
     failed |-> s.failed,
     results |-> s.results,
     details |-> s.details,
     execution_mode |-> s.execution_mode,
     email_notification |-> s.email_notification]

\* execute_endpoints, POST: "return jsonify(summary.to_dict()),
\* summary.get_http_status()".
execute_endpoints_post_respond ==
    /\ pc = "respond"
    /\ response' = Json("execute", get_http_status(summary), summary_to_dict(summary))
    /\ pc' = "done"
    /\ UNCHANGED <<req, cred, gate, mode, endpoints, idx, results, warnings, errors,
                   tasks, ready, collecting, raised, summary, trace, statusCode,
                   classified, bodyIn, bodyOut, environ, loaded, firstRun>>

----
Next ==
    \/ Arrive
    \/ decorated_function
    \/ simple_handler
    \/ execute_endpoints_get
    \/ execute_endpoints_post
    \/ execute
    \/ execute_sequential
    \/ execute_sequential_return
    \/ execute_parallel_submit
    \/ worker_start
    \/ worker_finish
    \/ as_completed_start
    \/ collect
    \/ execute_parallel_exit
    \/ executor_raised
    \/ execute_endpoints_get_respond
    \/ build_summary
    \/ _handle_email_notification
    \/ execute_endpoints_post_respond

Spec == Init /\ [][Next]_vars

----
\* The classification harness: _classify_status applied to every status
\* code of a range.
InitClassify ==
    /\ pc = "idle"
    /\ req = NoReq
    /\ cred = None
    /\ gate = NoGate
    /\ mode = NoMode
    /\ endpoints = <<>>
    /\ idx = 0
    /\ results = <<>>
    /\ warnings = <<>>
    /\ errors = <<>>
    /\ tasks = <<>>
    /\ ready = <<>>
    /\ collecting = FALSE
    /\ raised = None
    /\ summary = NoSummary
    /\ response = NoResponse
    /\ trace = NoTrace
    /\ statusCode \in 0..MaxCode
    /\ classified = None
    /\ bodyIn = NoBodyIn
    /\ bodyOut = NotCalled
    /\ environ = NoEnviron
    /\ loaded = NotLoaded
    /\ firstRun = NoRun

classify ==
    /\ classified = None
    /\ classified' = _classify_status(statusCode)
    /\ UNCHANGED <<pc, req, cred, gate, mode, endpoints, idx, results, warnings,
                   errors, tasks, ready, collecting, raised, summary, response,
                   trace, statusCode, bodyIn, bodyOut, environ, loaded, firstRun>>

NextClassify == classify

SpecClassify == InitClassify /\ [][NextClassify]_vars

----
\* The result harness: one endpoint whose request is answered with any
\* status code of the range, or fails, and the bucketing of the pair that
\* execute_single_endpoint returns for it.
InitResult ==
    /\ pc = "idle"
    /\ req = NoReq
    /\ cred = None
    /\ gate = NoGate
    /\ mode = NoMode
    /\ endpoints = <<>>
    /\ idx = 0
    /\ results = <<>>
    /\ warnings = <<>>
    /\ errors = <<>>
    /\ tasks = <<>>
    /\ ready = <<>>
    /\ collecting = FALSE
    /\ raised = None
    /\ summary = NoSummary
    /\ response = NoResponse
    /\ trace = NoTrace
    /\ statusCode \in 0..MaxCode
    /\ classified = None
    /\ bodyIn = NoBodyIn
    /\ bodyOut = NotCalled
    /\ environ = NoEnviron
    /\ loaded = NotLoaded
    /\ firstRun = NoRun

\* The failures execute_single_endpoint turns into a result: the endpoint
\* name it shows and the text of the exception it caught.
Failures ==
    {[name |-> "http://down", msg |-> Transport("http://down").msg, calls |-> 1],
     [name |-> FallbackName(1), msg |-> Transport(None).msg, calls |-> 1],
     [name |-> FallbackName(1), msg |-> from_config(NumberDescriptor).msg,
      calls |-> 0]}

\* execute_single_endpoint when the request was answered with statusCode:
\* (result.status, result) with the result from_response builds, put into
\* its bucket. classified keeps the status half of the pair.
single_endpoint_answered ==
    /\ pc = "idle"
    /\ LET result == from_response("http://ok", "POST", statusCode, 1)
           out == [raised |-> FALSE, exc |-> None, status |-> result.status,
                   calls |-> 1, result |-> result]
       IN  /\ classified' = result.status
           /\ results' = Bucketed(results, "results", out)
           /\ warnings' = Bucketed(warnings, "warnings", out)
           /\ errors' = Bucketed(errors, "errors", out)
    /\ pc' = "returned"
    /\ UNCHANGED <<req, cred, gate, mode, endpoints, idx, tasks, ready, collecting,
                   raised, summary, response, trace, statusCode, bodyIn, bodyOut,
                   environ, loaded, firstRun>>

\* execute_single_endpoint when from_config or the request raised an
\* exception it catches: (ERROR, from_error(name, str(e))), put into its
\* bucket.
single_endpoint_failed ==
    /\ pc = "idle"
    /\ \E f \in Failures :
         LET result == from_error(f.name, f.msg, 1)
             out == [raised |-> FALSE, exc |-> None, status |-> ERROR,
                     calls |-> f.calls, result |-> result]
         IN  /\ results' = Bucketed(results, "results", out)
             /\ warnings' = Bucketed(warnings, "warnings", out)
             /\ errors' = Bucketed(errors, "errors", out)
    /\ pc' = "returned"
    /\ UNCHANGED <<req, cred, gate, mode, endpoints, idx, tasks, ready, collecting,
                   raised, summary, response, trace, statusCode, classified, bodyIn,
                   bodyOut, environ, loaded, firstRun>>

NextResult ==
    \/ single_endpoint_answered
    \/ single_endpoint_failed

SpecResult == InitResult /\ [][NextResult]_vars

----
\* The body-selection harness: execute_request applied to every descriptor
\* body, json field and default payload.
InitBody ==
    /\ pc = "idle"
    /\ req = NoReq
    /\ cred = None
    /\ gate = NoGate
    /\ mode = NoMode
    /\ endpoints = <<>>
    /\ idx = 0
    /\ results = <<>>
    /\ warnings = <<>>
    /\ errors = <<>>
    /\ tasks = <<>>
    /\ ready = <<>>
    /\ collecting = FALSE
    /\ raised = None
    /\ summary = NoSummary
    /\ response = NoResponse
    /\ trace = NoTrace
    /\ statusCode = 0
    /\ classified = None
    /\ bodyIn \in [endpoint_config : [body : PyValues("body"),
                                      json_data : PyValues("json")],
                   default_payload : PyValues("default")]
    /\ bodyOut = NotCalled
    /\ environ = NoEnviron
    /\ loaded = NotLoaded
    /\ firstRun = NoRun

send_request ==
    /\ ~bodyOut.called
    /\ bodyOut' = execute_request(bodyIn.endpoint_config, bodyIn.default_payload)
    /\ UNCHANGED <<pc, req, cred, gate, mode, endpoints, idx, results, warnings,
                   errors, tasks, ready, collecting, raised, summary, response,
                   trace, statusCode, classified, bodyIn, environ, loaded,
                   firstRun>>

NextBody == send_request

SpecBody == InitBody /\ [][NextBody]_vars

----
\* The loader harness: load_endpoints_from_env applied to every environment.
InitLoad ==
    /\ pc = "idle"
    /\ req = NoReq
    /\ cred = None
    /\ gate = NoGate
    /\ mode = NoMode
    /\ endpoints = <<>>
    /\ idx = 0
    /\ results = <<>>
    /\ warnings = <<>>
    /\ errors = <<>>
    /\ tasks = <<>>
    /\ ready = <<>>
    /\ collecting = FALSE
    /\ raised = None
    /\ summary = NoSummary
    /\ response = NoResponse
    /\ trace = NoTrace
    /\ statusCode = 0
    /\ classified = None
    /\ bodyIn = NoBodyIn
    /\ bodyOut = NotCalled
    /\ environ \in Environs
    /\ loaded = NotLoaded
    /\ firstRun = NoRun

load ==
    /\ ~loaded.called
    /\ loaded' = load_endpoints_from_env(environ)
    /\ UNCHANGED <<pc, req, cred, gate, mode, endpoints, idx, results, warnings,
                   errors, tasks, ready, collecting, raised, summary, response,
                   trace, statusCode, classified, bodyIn, bodyOut, environ,
                   firstRun>>

NextLoad == load

SpecLoad == InitLoad /\ [][NextLoad]_vars

----
\* The executor harness: one HTTPExecutor, built with max_workers, whose
\* execute is called twice with the same endpoints and the same parallel
\* flag against the stub.
InitExecutor ==
    /\ pc = "execute"
    /\ req = NoReq
    /\ cred = None
    /\ gate = NoGate
    /\ \E p \in BOOLEAN, mw \in 0..MaxWorkersAsked :
          mode = [parallel |-> p, max_workers |-> mw, send_email |-> FALSE,
                  keys |-> {}]
    /\ endpoints \in EndpointLists
    /\ idx = 0
    /\ results = <<>>
    /\ warnings = <<>>
    /\ errors = <<>>
    /\ tasks = <<>>
    /\ ready = <<>>
    /\ collecting = FALSE
    /\ raised = None
    /\ summary = NoSummary
    /\ response = NoResponse
    /\ trace = NoTrace
    /\ statusCode = 0
    /\ classified = None
    /\ bodyIn = NoBodyIn
    /\ bodyOut = NotCalled
    /\ environ = NoEnviron
    /\ loaded = NotLoaded
    /\ firstRun = NoRun

\* The second call of execute with the buckets of the first call kept, as
\* if they were attributes of the executor.
execute_again_keeping_buckets ==
    /\ pc = "returned"
    /\ ~firstRun.done
    /\ firstRun' = [done |-> TRUE, successes |-> Len(results),
                    warnings |-> Len(warnings), errors |-> Len(errors)]
    /\ tasks' = <<>>
    /\ ready' = <<>>
    /\ collecting' = FALSE
    /\ idx' = 0
    /\ trace' = NoTrace
    /\ pc' = "execute"
    /\ UNCHANGED <<req, cred, gate, mode, endpoints, results, warnings, errors,
                   raised, summary, response, statusCode, classified, bodyIn,
                   bodyOut, environ, loaded>>

\* The caller keeps the counts of the first call and calls execute again:
\* the only attribute of the executor is max_workers, and the buckets, the
\* pool and the futures of the new call are new locals.
execute_again ==
    /\ pc = "returned"
    /\ ~firstRun.done
    /\ firstRun' = [done |-> TRUE, successes |-> Len(results),
                    warnings |-> Len(warnings), errors |-> Len(errors)]
    /\ results' = <<>>
    /\ warnings' = <<>>
    /\ errors' = <<>>
    /\ tasks' = <<>>
    /\ ready' = <<>>
    /\ collecting' = FALSE
    /\ idx' = 0
    /\ trace' = NoTrace
    /\ pc' = "execute"
    /\ UNCHANGED <<req, cred, gate, mode, endpoints, raised, summary, response,
                   statusCode, classified, bodyIn, bodyOut, environ, loaded>>

NextExecutor ==
    \/ execute
    \/ execute_sequential
    \/ execute_sequential_return
    \/ execute_parallel_submit
    \/ worker_start
    \/ worker_finish
    \/ as_completed_start
    \/ collect
    \/ execute_parallel_exit
    \/ execute_again

SpecExecutor == InitExecutor /\ [][NextExecutor]_vars

----
\* The pool harness: one call of execute in parallel mode on two or more
\* endpoints, each a URL that answers, a host that is down, a number or a
\* mapping with an ill-typed method.
PoolDescriptors ==
    {StrDescriptor("http://ok"), StrDescriptor("http://down"), NumberDescriptor,
     DictDescriptor("http://warn", NonStr)}

InitPool ==
    /\ pc = "execute"
    /\ req = NoReq
    /\ cred = None
    /\ gate = NoGate
    /\ \E mw \in 0..MaxWorkersAsked :
          mode = [parallel |-> TRUE, max_workers |-> mw, send_email |-> FALSE,
                  keys |-> {}]
    /\ endpoints \in {l \in Lists(PoolDescriptors, MaxEndpoints) : Len(l) >= 2}
    /\ idx = 0
    /\ results = <<>>
    /\ warnings = <<>>
    /\ errors = <<>>
    /\ tasks = <<>>
    /\ ready = <<>>
    /\ collecting = FALSE
    /\ raised = None
    /\ summary = NoSummary
    /\ response = NoResponse
    /\ trace = NoTrace
    /\ statusCode = 0
    /\ classified = None
    /\ bodyIn = NoBodyIn
    /\ bodyOut = NotCalled
    /\ environ = NoEnviron
    /\ loaded = NotLoaded
    /\ firstRun = NoRun

NextPool ==
    \/ execute
    \/ execute_parallel_submit
    \/ worker_start
    \/ worker_finish
    \/ as_completed_start
    \/ collect
    \/ execute_parallel_exit

\* The scheduling execute_parallel relies on: while some thread can take a
\* step one of them does, and every request that was issued ends (with a
\* response, a failure or its timeout).
SpecPoolFair == InitPool /\ [][NextPool]_vars /\ WF_vars(NextPool)

----
\* Properties.

\* The handler of /execute answered with a body of its own.
ExecuteAnswered ==
    pc = "done" /\ response.kind = "json" /\ response.by = "execute"

\* C1: every response body of /execute (GET or POST, sequential or parallel,
\* the zero-endpoint body and the GET executor-exception body included) has
\* total_endpoints = successful + warnings + failed.
C1_TotalIsSum ==
    ExecuteAnswered =>
        response.body.total_endpoints
            = response.body.successful + response.body.warnings
              + response.body.failed

\* C1 witness: a parallel POST answered with one success and one failure.
C1_Witness ==
    /\ ExecuteAnswered
    /\ req.method = "POST"
    /\ response.body.execution_mode = "parallel"
    /\ response.body.total_endpoints = 2
    /\ response.body.successful = 1
    /\ response.body.failed = 1

\* The results of all three buckets.
AllBuckets == results \o warnings \o errors

\* How many results the buckets hold for the endpoint at position i.
Occurrences(i) ==
    Cardinality({k \in 1..Len(AllBuckets) : AllBuckets[k].pos = i})

\* Every result of the bucket has the classification st.
BucketHolds(bucket, st) == \A k \in 1..Len(bucket) : bucket[k].status = st

\* C2: when HTTPExecutor.execute returns, in sequential and in parallel mode
\* and for every interleaving of the workers, each input position has
\* exactly one result, in exactly one bucket, and that bucket is the one of
\* the result's classification.
C2_ExactlyOnce ==
    pc = "returned" =>
        /\ \A i \in 1..Len(endpoints) : Occurrences(i) = 1
        /\ Len(AllBuckets) = Len(endpoints)
        /\ BucketHolds(results, SUCCESS)
        /\ BucketHolds(warnings, WARNING)
        /\ BucketHolds(errors, ERROR)

\* C2 witness: the parallel executor returned two errors collected against
\* input order.
C2_Witness ==
    /\ pc = "returned"
    /\ tasks # <<>>
    /\ Len(errors) = 2
    /\ errors[1].pos = 2

\* The endpoint at position i fails on its own in a way
\* execute_single_endpoint does not turn into a result.
Faulty(i) == execute_single_endpoint(i, endpoints[i]).raised

\* The executor was left, by return or by exception, after it started on
\* the endpoints.
ExecutorLeft ==
    /\ pc \in {"returned", "unwind"}
    /\ ~(mode.parallel /\ Len(endpoints) > 1 /\ mode.max_workers <= 0)

\* C3: a failure in one endpoint's execution never aborts or affects another
\* endpoint's execution: every other endpoint is still executed and its
\* result is still returned in its bucket.
C3_Isolation ==
    ExecutorLeft =>
        \A i \in 1..Len(endpoints) :
            ~Faulty(i) =>
                /\ \E k \in 1..Len(trace.resolved) : trace.resolved[k] = i
                /\ pc = "returned"
                /\ Occurrences(i) = 1

\* C4: classification is total; exactly 207 is WARNING, any other code of
\* 200..299 is SUCCESS, every other code (0 included) is ERROR.
C4_Classification ==
    classified # None =>
        /\ classified \in {SUCCESS, WARNING, ERROR}
        /\ statusCode = 207 => classified = WARNING
        /\ (statusCode \in 200..299 /\ statusCode # 207) => classified = SUCCESS
        /\ statusCode \notin 200..299 => classified = ERROR

\* C4 witness: 207 has been classified WARNING.
C4_Witness == statusCode = 207 /\ classified = WARNING

\* The overall status the summary rule gives for the counts of a body.
StatusRule(body) ==
    IF body.failed > 0 THEN 500
    ELSE IF body.warnings > 0 THEN 207
    ELSE 200

\* C5: get_http_status is 500 if failed > 0, else 207 if warnings > 0, else
\* 200, and a POST /execute response has exactly that status for the counts
\* of its body.
C5_PostStatus ==
    (ExecuteAnswered /\ req.method = "POST") =>
        response.status = StatusRule(response.body)

\* C5 witness: a POST with a warning and a failure answered 500.
C5_Witness ==
    /\ ExecuteAnswered
    /\ req.method = "POST"
    /\ response.body.warnings = 1
    /\ response.body.failed = 1
    /\ response.status = 500

\* C6: a GET /execute response has status 500 if any endpoint is ERROR,
\* else 207 if any is WARNING, else 200.
C6_GetStatus ==
    (ExecuteAnswered /\ req.method = "GET") =>
        response.status = StatusRule(response.body)

\* C7: in every /execute response success is true only when the warnings
\* count and the failed count are both zero.
C7_SuccessFlag ==
    ExecuteAnswered =>
        (response.body.success =>
            response.body.warnings = 0 /\ response.body.failed = 0)

\* The gate has decided about the request and its locals are still there.
GateDecided == gate.decision # -1

\* The gate let the request through: the handler has been called.
HandlerCalled == GateDecided /\ gate.decision = 0 /\ pc = "handler"

\* The gate answered with the given status and the handler was not called.
Rejected(status) ==
    /\ GateDecided
    /\ gate.decision = status
    /\ pc = "done"
    /\ response = Json("gate", status, Rejection(status))
    /\ ~trace.handler

\* /health has no gate: whatever the header, its handler is called and
\* answers.
HealthOpen ==
    (req.route = "/health") =>
        /\ ~GateDecided
        /\ pc \in {"handler", "done"}
        /\ pc = "done" => (response.by = "/health" /\ trace.handler)

\* C8 as stated: no secret configured, the handler runs for any header; a
\* secret configured and the header absent, 401 and no handler; a secret
\* configured and the header present but different, 403 and no handler;
\* /health runs regardless of the header.
C8_GateAsStated ==
    /\ GateDecided =>
        /\ gate.api_key = None => HandlerCalled
        /\ (gate.api_key # None /\ cred = None) => Rejected(401)
        /\ (gate.api_key # None /\ cred # None /\ cred # gate.api_key)
              => Rejected(403)
    /\ HealthOpen

\* C8 amended: as stated, except that an empty header counts as absent
\* (401, also when the configured secret is empty) and that, while TESTING
\* is on, the built-in test key is let through whatever the secret.
C8_Gate ==
    /\ GateDecided =>
        /\ gate.api_key = None => HandlerCalled
        /\ (gate.testing /\ cred = TestKey) => HandlerCalled
        /\ (gate.api_key # None /\ cred \in {None, ""}) => Rejected(401)
        /\ (gate.api_key # None /\ cred \notin {None, ""} /\ cred # gate.api_key
            /\ ~(gate.testing /\ cred = TestKey)) => Rejected(403)
        /\ (gate.api_key # None /\ cred \notin {None, ""} /\ cred = gate.api_key)
              => HandlerCalled
    /\ HealthOpen

\* C8 witness: a wrong key was answered 403 with a secret configured.
C8_Witness == Rejected(403) /\ gate.api_key = "s3cret" /\ cred = "wrong"

\* C9: while a request to /execute is answered 401 or 403, no endpoint
\* configuration is loaded, no descriptor is resolved, no outbound request
\* is issued and no notification is attempted.
C9_GateFirst ==
    (req.route = "/execute" /\ response.status \in {401, 403}) =>
        /\ trace = NoTrace
        /\ endpoints = <<>>
        /\ AllBuckets = <<>>
        /\ tasks = <<>>
        /\ pc = "done"

\* C9 witness: a POST /execute without a key was answered 401.
C9_Witness ==
    /\ req.route = "/execute"
    /\ req.method = "POST"
    /\ response.status = 401
    /\ cred = None

\* C10: when loading the endpoint configuration fails with a
\* ConfigurationError and the request supplies no endpoints, GET and POST
\* /execute both answer a zero-endpoint body with status 200, issue no
\* outbound request and let no exception leave the handler.
C10_LoadFailure ==
    (pc = "done" /\ req.route = "/execute"
     /\ trace.load_error = "ConfigurationError") =>
        /\ response.kind = "json"
        /\ response.status = 200
        /\ response.body.total_endpoints = 0
        /\ trace.sent = <<>>

\* The positions whose execution ends in a fault or in an ERROR status.
Faults ==
    {i \in 1..Len(endpoints) :
        LET out == execute_single_endpoint(i, endpoints[i])
        IN  out.raised \/ out.status = ERROR}

\* C11: no POST /execute lets an exception leave the handler: whatever the
\* endpoints, the parallel flag and max_workers (0 with two endpoints and
\* descriptors with ill-typed fields included), the answer is a summary in
\* which every endpoint fault is an ERROR result.
C11_NoEscape ==
    (pc = "done" /\ req.route = "/execute" /\ req.method = "POST"
     /\ trace.handler) =>
        /\ response.kind = "json"
        /\ response.body.total_endpoints = Len(endpoints)
        /\ response.body.failed = Cardinality(Faults)

\* The executor runs, or ran, the loop of execute_sequential.
InSequential == ~(mode.parallel /\ Len(endpoints) > 1)

\* The positions of a bucket grow from its first result to its last.
InInputOrder(bucket) ==
    \A k, l \in 1..Len(bucket) : k < l => bucket[k].pos < bucket[l].pos

\* C12: sequential mode is strictly sequential and in input order: the
\* endpoints are taken in the order of the list, the request of an endpoint
\* is not issued until every earlier endpoint has its result in a bucket,
\* and inside each bucket the results keep the relative order of the input.
C12_Sequential ==
    InSequential =>
        /\ \A k \in 1..Len(trace.resolved) :
              /\ trace.resolved[k] = k
              /\ \A i \in 1..(k - 1) : Occurrences(i) = 1
        /\ \A k, l \in 1..Len(trace.sent) :
              k < l => trace.sent[k] < trace.sent[l]
        /\ pc = "seq" =>
              /\ Len(trace.resolved) = idx - 1
              /\ Len(AllBuckets) = idx - 1
        /\ InInputOrder(results)
        /\ InInputOrder(warnings)
        /\ InInputOrder(errors)

\* C12 witness: the sequential loop requested two endpoints in turn and
\* returned their two results in the same bucket, in input order.
C12_Witness ==
    /\ InSequential
    /\ pc = "returned"
    /\ tasks = <<>>
    /\ trace.sent = <<1, 2>>
    /\ Len(errors) = 2
    /\ errors[1].pos = 1

\* The executor is inside execute_parallel.
InParallel == pc \in {"par", "par_run", "par_shutdown"}

\* C13: execute takes the parallel path exactly when parallel is true and
\* there are at least two endpoints (none or one endpoint runs the
\* sequential loop even when parallel is asked); the execution_mode of a
\* POST summary is "parallel" exactly when the pool ran the endpoints; and a
\* body without the parallel key asks for parallel.
C13_Strategy ==
    /\ InParallel => (mode.parallel /\ Len(endpoints) >= 2)
    /\ pc = "seq" => ~(mode.parallel /\ Len(endpoints) >= 2)
    /\ Len(endpoints) <= 1 => (~InParallel /\ tasks = <<>>)
    /\ (ExecuteAnswered /\ req.method = "POST") =>
          (response.body.execution_mode = "parallel" <=> tasks # <<>>)
    /\ (pc = "execute" /\ req.method = "POST" /\ "parallel" \notin mode.keys) =>
          mode.parallel

\* C13 witness: a POST that asked for parallel with one endpoint was
\* answered with execution_mode "sequential" and no pool.
C13_Witness ==
    /\ ExecuteAnswered
    /\ req.method = "POST"
    /\ mode.parallel
    /\ Len(endpoints) = 1
    /\ tasks = <<>>
    /\ response.body.execution_mode = "sequential"

\* The input positions that a bucket holds.
Positions(bucket) == {bucket[k].pos : k \in 1..Len(bucket)}

\* The input positions whose outcome, fixed by the stub, has the
\* classification st.
Outcomes(st) ==
    {i \in 1..Len(endpoints) :
        LET out == execute_single_endpoint(i, endpoints[i])
        IN  ~out.raised /\ out.status = st}

\* C14: with a stub that fixes the outcome of each endpoint, the buckets
\* that execute returns hold the same endpoints in sequential mode and in
\* parallel mode, whatever the order in which the workers complete: each
\* bucket holds the endpoints whose fixed outcome has its classification,
\* and only the order inside a bucket depends on the mode.
C14_SameMembership ==
    pc = "returned" =>
        /\ Positions(results) = Outcomes(SUCCESS)
        /\ Positions(warnings) = Outcomes(WARNING)
        /\ Positions(errors) = Outcomes(ERROR)
        /\ Len(results) = Cardinality(Outcomes(SUCCESS))
        /\ Len(warnings) = Cardinality(Outcomes(WARNING))
        /\ Len(errors) = Cardinality(Outcomes(ERROR))

\* C14 witness: the parallel executor returned the errors of both
\* endpoints, the second endpoint's collected first, where the sequential
\* loop returns them in input order.
C14_Witness ==
    /\ pc = "returned"
    /\ tasks # <<>>
    /\ endpoints[1] = NumberDescriptor
    /\ Positions(errors) = {1, 2}
    /\ errors[1].pos = 2

\* The input positions that the transport was invoked for.
Requested == {trace.sent[k] : k \in 1..Len(trace.sent)}

\* C15: a descriptor that is neither a string nor a mapping (12345) at
\* index i gives exactly one result, an ERROR named endpoint_<i> with
\* status_code 0 and the invalid-configuration-type message; no request is
\* issued for it; and it never makes the executor raise, so the rest of the
\* batch has its results too.
C15_InvalidType ==
    /\ pc = "returned" =>
          \A i \in 1..Len(endpoints) :
              endpoints[i] = NumberDescriptor =>
                  /\ Occurrences(i) = 1
                  /\ \E k \in 1..Len(errors) :
                        /\ errors[k].pos = i
                        /\ errors[k].status = ERROR
                        /\ errors[k].endpoint = "endpoint_" \o ToString(i - 1)
                        /\ errors[k].status_code = 0
                        /\ errors[k].error = "Invalid endpoint configuration type"
                  /\ i \notin Requested
                  /\ \A j \in 1..Len(endpoints) : Occurrences(j) = 1
    /\ pc = "unwind" =>
          \/ mode.max_workers <= 0
          \/ \E i \in 1..Len(endpoints) : endpoints[i].type = "dict"

\* C15 witness: the batch [12345, "http://ok"] returned the error of the
\* number and the success of the URL, which alone was requested.
C15_Witness ==
    /\ pc = "returned"
    /\ endpoints = <<NumberDescriptor, StrDescriptor("http://ok")>>
    /\ Len(errors) = 1
    /\ errors[1].endpoint = "endpoint_0"
    /\ Len(results) = 1
    /\ Requested = {2}

\* The descriptor is a mapping whose url is absent or empty.
NoUrl(config) == config.type = "dict" /\ config.url \in {Absent, ""}

\* C16: resolving a structured descriptor whose url is absent or empty
\* fails with an invalid-configuration error and produces no EndpointConfig,
\* so nothing is requested for it.
C16_UrlRequired ==
    \A k \in 1..Len(trace.resolved) :
        LET i == trace.resolved[k]
        IN  NoUrl(endpoints[i]) =>
                /\ ~from_config(endpoints[i]).ok
                /\ from_config(endpoints[i]).exc = "ValueError"
                /\ i \notin Requested

\* The body that went out with the request, PyNone when none did.
Sent == IF bodyOut.json # PyNone THEN bodyOut.json ELSE bodyOut.data

\* C17: for one request, a descriptor that has both a body and a json field
\* has its body sent; the default payload is sent exactly when the
\* descriptor has neither field and a default payload was supplied; and a
\* descriptor's own body or json is never replaced by the default payload.
C17_BodySelection ==
    bodyOut.called =>
        LET body == bodyIn.endpoint_config.body
            json == bodyIn.endpoint_config.json_data
        IN  /\ (body # PyNone /\ json # PyNone) => Sent = body
            /\ Sent.origin = "default"
                  <=> (body = PyNone /\ json = PyNone
                       /\ bodyIn.default_payload # PyNone)
            /\ (body # PyNone \/ json # PyNone) => Sent.origin # "default"

\* The input positions whose invocation of execute_single_endpoint began.
Started == {trace.resolved[k] : k \in 1..Len(trace.resolved)}

\* The parallel path was taken and execute_parallel was left.
ParallelLeft ==
    /\ mode.parallel /\ Len(endpoints) >= 2
    /\ pc \in {"returned", "unwind", "notify", "respond", "done"}

\* C18: in parallel mode the pool has min(max_workers, number of endpoints)
\* workers, max_workers being 10 unless the body gives it: never more
\* invocations than that are in flight, and the invocation of every
\* endpoint is started before execute_parallel is left.
C18_Pool ==
    /\ Cardinality(Running) <= Min(mode.max_workers, Len(endpoints))
    /\ (pc = "execute" /\ req.method = "POST" /\ "max_workers" \notin mode.keys) =>
          mode.max_workers = Min(DefaultWorkers, LenOr1(endpoints))
    /\ ParallelLeft => Started = 1..Len(endpoints)

\* The summary without its email_notification.
Outcome(s) == [s EXCEPT !.email_notification = NoEmail]

\* C19: the notification step changes nothing of the summary but
\* email_notification: the counts, the results, the details, the
\* execution_mode, success and the HTTP status are what they were, whether
\* the mail was sent, failed or was not asked for; a failure is recorded as
\* email_sent false with its error text and the request is answered all the
\* same.
C19_NotificationFrame ==
    /\ pc \in {"notify", "respond"} =>
          /\ summary.built
          /\ Outcome(summary)
                = [built |-> TRUE,
                   total_endpoints |-> Len(endpoints),
                   successful |-> Len(results),
                   warnings |-> Len(warnings),
                   failed |-> Len(errors),
                   results |-> Dicts(results),
                   details |-> [warnings |-> Dicts(warnings),
                                errors |-> Dicts(errors)],
                   execution_mode |-> IF tasks # <<>> THEN "parallel"
                                      ELSE "sequential",
                   email_notification |-> NoEmail]
    /\ pc = "respond" =>
          /\ summary.email_notification.set
          /\ (mode.send_email /\ ~summary.email_notification.email_sent) =>
                summary.email_notification.error # None
    /\ (ExecuteAnswered /\ req.method = "POST") =>
          /\ response.body = summary_to_dict(summary)
          /\ response.status = get_http_status(Outcome(summary))
          /\ response.body.success = success(Outcome(summary))
    /\ trace.notified > 0 => (pc \in {"respond", "done"} /\ response.kind # "unhandled")

\* C19 witness: a POST with two errors asked for the mail, the SMTP step
\* failed, and the answer is the 500 of the errors with the failure
\* recorded.
C19_Witness ==
    /\ ExecuteAnswered
    /\ req.method = "POST"
    /\ mode.send_email
    /\ trace.smtp = 1
    /\ response.status = 500
    /\ response.body.failed = 2
    /\ ~response.body.email_notification.email_sent
    /\ response.body.email_notification.error = "SMTP error"

\* C20: a POST attempts the notification at most once, only when the body
\* has a truthy send_email (absent means false), and only after every
\* result is in its bucket and the counts of the summary are fixed; with
\* send_email absent or false no SMTP connection is opened and
\* email_notification says the notification was not requested. A GET never
\* attempts it.
C20_NotificationOnce ==
    /\ trace.notified <= 1
    /\ trace.smtp <= trace.notified
    /\ trace.notified = 1 =>
          /\ req.method = "POST"
          /\ mode.send_email
          /\ summary.built
          /\ Len(AllBuckets) = Len(endpoints)
          /\ Running = {} /\ QueuedTasks = {}
          /\ summary.successful = Len(results)
          /\ summary.warnings = Len(warnings)
          /\ summary.failed = Len(errors)
    /\ (pc = "execute" /\ req.method = "POST" /\ "send_email" \notin mode.keys) =>
          ~mode.send_email
    /\ (pc \in {"respond", "done"} /\ summary.built /\ ~mode.send_email) =>
          /\ trace.notified = 0
          /\ trace.smtp = 0
          /\ summary.email_notification = EmailNotRequested

\* C20 witness: a POST of two endpoints without send_email was answered
\* with the not-requested record and no SMTP connection.
C20_Witness ==
    /\ ExecuteAnswered
    /\ req.method = "POST"
    /\ ~mode.send_email
    /\ response.body.total_endpoints = 2
    /\ response.body.email_notification = EmailNotRequested
    /\ trace.smtp = 0
    /\ trace.notified = 0

\* The variables that a placeholder of the text names.
Named(text) == {v \in VarNames : \E k \in 1..Len(text) : text[k] = Placeholder(v)}

\* C21: load_endpoints_from_env returns a non-empty list or raises
\* ConfigurationError and returns nothing. It raises when ENDPOINTS is unset
\* or empty, when a placeholder names an undefined variable (the message
\* names such a variable), when the text after substitution is not valid
\* JSON, when the parsed value is not an array and when the array is empty.
\* Substitution comes before parsing, and a text without placeholders is
\* left as it is.
C21_Loader ==
    loaded.called =>
        LET endpoints_str == environ.ENDPOINTS
            text == endpoints_str.text
            undefined == {v \in Named(text) : ~getenv(environ, v).set}
            resolved == resolve(text, environ)
            parsed == json_loads(resolved.text)
        IN  /\ loaded.ok => (loaded.value # <<>> /\ loaded.exc = None)
            /\ ~loaded.ok =>
                  (loaded.exc = "ConfigurationError" /\ loaded.value = <<>>)
            /\ (~endpoints_str.set \/ text = <<>>) => ~loaded.ok
            /\ (endpoints_str.set /\ undefined # {}) =>
                  (~loaded.ok /\ loaded.var_name \in undefined)
            /\ (endpoints_str.set /\ text # <<>> /\ undefined = {}) =>
                  /\ resolved.ok
                  /\ ~parsed.ok => ~loaded.ok
                  /\ (parsed.ok /\ parsed.val.t # "list") => ~loaded.ok
                  /\ (parsed.ok /\ parsed.val = JsonList(<<>>)) => ~loaded.ok
                  /\ (parsed.ok /\ parsed.val.t = "list"
                      /\ parsed.val.items # <<>>) =>
                        /\ loaded.ok
                        /\ loaded.value = parsed.val.items
            /\ loaded.ok =>
                  /\ loaded.resolved = resolved.text
                  /\ Named(loaded.resolved) = {}
            /\ Named(text) = {} => resolved.text = text

\* C21 witness: ENDPOINTS is [${A}] and A is a string literal; the loader
\* returned the one-element list of the substituted text.
C21_Witness ==
    /\ loaded.called
    /\ environ.ENDPOINTS = SetTo(<<"[", Placeholder("A"), "]">>)
    /\ environ.A = SetTo(<<"'u'">>)
    /\ loaded.ok
    /\ loaded.value = <<JsonStr>>
    /\ loaded.resolved = <<"[", "'u'", "]">>

\* C22: two calls of execute with the same endpoints, the same mode and the
\* same stub give the same numbers of successes, warnings and errors, in
\* sequential and in parallel mode: nothing of the first call is left in
\* the executor.
C22_Repeatable ==
    (pc = "returned" /\ firstRun.done) =>
        /\ Len(results) = firstRun.successes
        /\ Len(warnings) = firstRun.warnings
        /\ Len(errors) = firstRun.errors
        /\ Len(AllBuckets) = Len(endpoints)

\* C22 witness: the second parallel call returned one warning and one
\* error, as the first call had.
C22_Witness ==
    /\ pc = "returned"
    /\ firstRun.done
    /\ tasks # <<>>
    /\ firstRun.warnings = 1
    /\ firstRun.errors = 1
    /\ Len(warnings) = 1
    /\ Len(errors) = 1

\* C23: execute_single_endpoint never raises to its caller: a failure of
\* the resolution or of the request comes back as an ERROR pair whose
\* endpoint is the URL, or endpoint_<index> when no URL is known, with
\* status_code 0 and the message of the failure as error text.
C23_NeverRaises ==
    \A k \in 1..Len(trace.resolved) :
        LET i == trace.resolved[k]
            endpoint_config == from_config(endpoints[i])
            reply == Transport(endpoint_config.url)
            out == execute_single_endpoint(i, endpoints[i])
        IN  /\ ~out.raised
            /\ (~endpoint_config.ok \/ reply.raised) =>
                  /\ out.status = ERROR
                  /\ out.result.status_code = 0
                  /\ out.result.endpoint
                        = IF endpoint_config.ok
                             /\ endpoint_config.url \notin {None, ""}
                          THEN endpoint_config.url
                          ELSE "endpoint_" \o ToString(i - 1)
                  /\ out.result.error
                        = IF endpoint_config.ok THEN reply.msg
                          ELSE endpoint_config.msg

\* How many times the transport was invoked for the endpoint at position i.
Invocations(i) ==
    Cardinality({k \in 1..Len(trace.sent) : trace.sent[k] = i})

\* C24: there are no retries: during one call of execute the transport is
\* invoked at most once for each position, once when the descriptor was
\* resolved to an EndpointConfig and never when its resolution failed, in
\* both modes and whether or not the request failed.
C24_NoRetry ==
    \A i \in 1..Len(endpoints) :
        /\ Invocations(i) <= 1
        /\ Cardinality({k \in 1..Len(trace.resolved) : trace.resolved[k] = i}) <= 1
        /\ i \in Started =>
              Invocations(i) = IF from_config(endpoints[i]).ok THEN 1 ELSE 0
        /\ i \notin Started => Invocations(i) = 0

\* C24 witness: the pool ran an unreachable host and a number: one
\* invocation of the transport, which failed, for the host and none for the
\* number.
C24_Witness ==
    /\ pc = "returned"
    /\ tasks # <<>>
    /\ endpoints = <<StrDescriptor("http://down"), NumberDescriptor>>
    /\ Invocations(1) = 1
    /\ Invocations(2) = 0
    /\ Len(errors) = 2

\* execute_parallel was left, by return or by exception, after it submitted
\* its tasks.
PoolLeft == tasks # <<>> /\ pc \in {"returned", "unwind"}

\* Every submitted task was started and has ended.
AllTasksDone ==
    /\ Started = 1..Len(tasks)
    /\ \A i \in 1..Len(tasks) : tasks[i].state \in {"finished", "collected"}

\* C25: in parallel mode no dispatched task is cancelled: when execute
\* returns or fails every submitted task has run to completion, none is
\* queued or running; and, every request ending, execute_parallel is
\* eventually left.
C25_Termination ==
    /\ [](PoolLeft => AllTasksDone)
    /\ [](InParallel => Len(tasks) \in {0, Len(endpoints)})
    /\ InParallel ~> (pc \in {"returned", "unwind"})

\* C25 witness: a task raised, the exception left execute_parallel, and
\* both tasks had been started and had ended by then.
C25_Witness ==
    /\ pc = "unwind"
    /\ raised = "AttributeError"
    /\ Len(tasks) = 2
    /\ AllTasksDone
    /\ tasks[2].state = "finished"

\* The place of the task of position i in the order in which the tasks
\* completed, 0 while it has not completed.
Rank(i) ==
    LET at == {k \in 1..Len(trace.completed) : trace.completed[k] = i}
    IN  IF at = {} THEN 0 ELSE CHOOSE k \in at : TRUE

\* The task of position i completed before as_completed started.
Early(i) == Rank(i) <= trace.snapshot

\* The results of the bucket are in the order in which their tasks
\* completed.
InCompletionOrder(bucket) ==
    \A k, l \in 1..Len(bucket) :
        k < l => Rank(bucket[k].pos) < Rank(bucket[l].pos)

\* In the bucket, the tasks that completed before collection started come
\* first, and those that completed later are in completion order.
InCollectionOrder(bucket) ==
    \A k, l \in 1..Len(bucket) :
        k < l =>
            /\ Early(bucket[l].pos) => Early(bucket[k].pos)
            /\ (~Early(bucket[k].pos) /\ ~Early(bucket[l].pos)) =>
                  Rank(bucket[k].pos) < Rank(bucket[l].pos)

\* C26 as stated: in parallel mode the results of each bucket are in the
\* order in which their tasks completed, for every interleaving, the tasks
\* that complete before collection starts included.
C26_CompletionOrder ==
    pc = "par_run" =>
        /\ InCompletionOrder(results)
        /\ InCompletionOrder(warnings)
        /\ InCompletionOrder(errors)

\* C26: in parallel mode the calling thread appends each result as
\* as_completed hands it over: in each bucket the tasks that completed
\* before collection started come first, in no fixed order, and the tasks
\* that completed after it started follow in completion order.
C26_CollectionOrder ==
    pc = "par_run" =>
        /\ InCollectionOrder(results)
        /\ InCollectionOrder(warnings)
        /\ InCollectionOrder(errors)
        /\ \A k \in 1..Len(AllBuckets) : Rank(AllBuckets[k].pos) > 0

\* C26 witness: both tasks completed before collection started, the first
\* endpoint's first, and the errors bucket holds the second endpoint's
\* result first.
C26_Witness ==
    /\ pc = "par_run"
    /\ trace.completed = <<1, 2>>
    /\ trace.snapshot = 2
    /\ Len(errors) = 2
    /\ errors[1].pos = 2

\* The buckets of the run, as one value.
Buckets == <<results, warnings, errors>>

\* The step is one iteration of the calling thread's collection loop: it
\* takes the future as_completed hands over and appends that task's result,
\* and no task starts or ends in the same step.
CallerAppends ==
    /\ pc = "par_run"
    /\ collecting
    /\ ready # <<>>
    /\ ready' = Tail(ready)
    /\ tasks[Head(ready)].state = "finished"
    /\ tasks' = [tasks EXCEPT ![Head(ready)].state = "collected"]
    /\ Len(results') + Len(warnings') + Len(errors') = Len(AllBuckets) + 1
    /\ \E b \in {results', warnings', errors'} :
          b # <<>> /\ b[Len(b)].pos = Head(ready)

\* C27: in parallel mode the buckets are written by the calling thread
\* only: every change of a bucket is one append made by an iteration of the
\* collection loop, and no worker step (a task starting or ending) writes
\* a bucket or happens within an append.
C27_CallerOnly ==
    [][(InParallel /\ Buckets' # Buckets) => CallerAppends]_vars

\* C27 witness: the calling thread has appended the first task's result
\* while the second task is still running.
C27_Witness ==
    /\ pc = "par_run"
    /\ Len(tasks) = 2
    /\ tasks[1].state = "collected"
    /\ tasks[2].state = "running"
    /\ Len(AllBuckets) = 1
    /\ AllBuckets[1].pos = 1

\* C28: in every response body of /execute (GET or POST, the GET body
\* built when the executor raised included) each count is the length of
\* the list it summarises: successful of results, warnings of
\* details.warnings, failed of details.errors.
C28_CountsMatch ==
    ExecuteAnswered =>
        /\ response.body.successful = Len(response.body.results)
        /\ response.body.warnings = Len(response.body.details.warnings)
        /\ response.body.failed = Len(response.body.details.errors)

\* C29: the test key opens a protected route in place of the secret only
\* while TESTING is true; with TESTING false and a secret configured, the
\* handler is called only if the X-API-Key header equals the secret the
\* gate read from the configuration for this request.
C29_TestKeyOnlyInTesting ==
    (HandlerCalled /\ gate.api_key # None) =>
        /\ cred # gate.api_key => (gate.testing /\ cred = TestKey)
        /\ ~gate.testing => cred = gate.api_key

\* C29 witness: with a secret configured and TESTING true, the handler was
\* called for a request carrying the test key.
C29_Witness ==
    /\ HandlerCalled
    /\ gate.api_key = "s3cret"
    /\ gate.testing
    /\ cred = TestKey

\* The result came from an HTTP response (from_response built it).
FromResponse == pc = "returned" /\ classified # None

\* The result came from a caught failure (from_error built it).
FromFailure == pc = "returned" /\ classified = None

\* C30: a result carries an error text exactly when it is classified
\* ERROR. Built from a response, its error is "HTTP <status_code>" when it
\* is ERROR and absent otherwise; built from a failure, it is ERROR with
\* status_code 0 and method UNKNOWN. So nothing in the successes or
\* warnings bucket carries an error (nor an error key in its dictionary),
\* and everything in the errors bucket has a status_code outside 200..299.
C30_ErrorIffERROR ==
    /\ pc = "returned" => Len(AllBuckets) = 1
    /\ \A k \in 1..Len(AllBuckets) :
         LET r == AllBuckets[k]
         IN  /\ r.error # None <=> r.status = ERROR
             /\ FromResponse =>
                  /\ r.status_code = statusCode
                  /\ r.status = ERROR => r.error = "HTTP " \o ToString(statusCode)
                  /\ r.status # ERROR => r.error = None
             /\ FromFailure =>
                  /\ r.status = ERROR
                  /\ r.status_code = 0
                  /\ r.method = "UNKNOWN"
    /\ \A k \in 1..Len(results) :
          results[k].error = None /\ to_dict(results[k]) = [endpoint |-> results[k].endpoint, method |-> results[k].method, status_code |-> results[k].status_code]
    /\ \A k \in 1..Len(warnings) :
          warnings[k].error = None /\ to_dict(warnings[k]) = [endpoint |-> warnings[k].endpoint, method |-> warnings[k].method, status_code |-> warnings[k].status_code]
    /\ \A k \in 1..Len(errors) :
          /\ errors[k].status = ERROR
          /\ ~(200 <= errors[k].status_code /\ errors[k].status_code < 300)

\* C30 witness: a response with status 404 gave a result in the errors
\* bucket with the error text "HTTP 404".
C30_Witness ==
    /\ FromResponse
    /\ statusCode = 404
    /\ Len(errors) = 1
    /\ errors[1].error = "HTTP 404"
    /\ results = <<>> /\ warnings = <<>>

====
